---- MODULE Spec2Model ----
(***************************************************************************)
(* Appointment scheduling and conflict resolution of swasth-setu-be:       *)
(* the Appointment and DoctorSchedule tables, the create and update        *)
(* serializers' validation, Appointment.check_overlap and the appointment  *)
(* views (create, update, cancel).                                         *)
(*                                                                         *)
(* Times of day are minutes since midnight (datetime.time, 0..1439), dates *)
(* are day ordinals (day 1 is a Monday).  A request handler that reads     *)
(* the tables in is_valid() and writes them in perform_create or           *)
(* perform_update is two steps: no transaction joins them in the source.   *)
(***************************************************************************)
EXTENDS Integers, FiniteSets, Sequences, TLC

\* ------------------------------------------------------------- bounds
\* Rows the Appointment table may hold in the model.
MaxAppts == 2
\* Requests that have passed validation and not yet written.
MaxInFlight == 2

\* ------------------------------------------------------------- domains
Doctors == {"dA", "dB"}
Patients == {"p1", "p2"}
\* Day 1 is a Monday, day 2 a Tuesday.
Dates == {1, 2}
\* 09:00, 09:15 (not slot-aligned), 10:00
Times == {540, 555, 600}
\* The readings datetime.now() takes in the model: <<date, time>>.
ClockPoints == {<<1, 0>>, <<1, 555>>}

MinutesPerDay == 1440
SlotMinutes == 30

APPOINTMENT_TYPE_CHOICES == {"video", "in_person"}
STATUS_CHOICES == {"scheduled", "confirmed", "in_progress", "completed", "cancelled"}
\* status__in=['scheduled', 'confirmed', 'in_progress']
ActiveStatuses == {"scheduled", "confirmed", "in_progress"}

\* DoctorSchedule.objects.filter(...).first() on an empty queryset.
NoSchedule == [start_time |-> 0, end_time |-> 0, is_available |-> FALSE, exists |-> FALSE]

VARIABLES
    appts,      \* the Appointment table: row id -> row (ids are 1..Len)
    available,  \* Doctor.available, per doctor
    schedule,   \* the DoctorSchedule table: <<doctor, day_of_week>> -> row
    now,        \* datetime.now(): <<date, time>>
    reqs,       \* requests between is_valid() and save()
    resp,       \* the response being returned: operation, row id, outcome,
                \* (for a validated date/time) the checks that fail for it, and
                \* what the request's signal receivers did (fx)
    service,    \* the collaborators' condition: Google Calendar, Notification table
    rooms       \* the VideoCallRoom table: appointment id -> room status

vars == <<appts, available, schedule, now, reqs, resp, service, rooms>>

\* ------------------------------------------------------------- helpers
\* date.weekday(): Monday is 0; day ordinal 1 is a Monday.
Weekday(date) == (date - 1) % 7

\* (datetime.combine(date, t) + timedelta(minutes=30)).time()
EndTime(t) == (t + SlotMinutes) % MinutesPerDay

\* the past check with <= in place of <
InPast_NotStrict(date, t) ==
    \/ date < now[1]
    \/ date = now[1] /\ t <= now[2]

\* datetime.combine(date, time) < datetime.now()
InPast(date, t) ==
    \/ date < now[1]
    \/ date = now[1] /\ t < now[2]

Ids == 1..Len(appts)

\* not (appointment_end_time <= apt.scheduled_time or self.scheduled_time >= apt_end_time)
TimesOverlap(t, u) == ~(EndTime(t) <= u \/ t >= EndTime(u))

\* existing_doctor_appts, and the loop over it
overlapping_doctor(doctor, date, t, selfId) ==
    \E i \in Ids :
        /\ i # selfId
        /\ appts[i].doctor = doctor
        /\ appts[i].scheduled_date = date
        /\ appts[i].status \in ActiveStatuses
        /\ TimesOverlap(t, appts[i].scheduled_time)

\* existing_patient_appts, and the loop over it
overlapping_patient(patient, date, t, selfId) ==
    \E i \in Ids :
        /\ i # selfId
        /\ appts[i].patient = patient
        /\ appts[i].scheduled_date = date
        /\ appts[i].status \in ActiveStatuses
        /\ TimesOverlap(t, appts[i].scheduled_time)

\* Appointment.check_overlap; selfId is 0 for an unsaved row (id None)
check_overlap(doctor, patient, date, t, selfId) ==
    overlapping_doctor(doctor, date, t, selfId) \/ overlapping_patient(patient, date, t, selfId)

\* the schedule query without its is_available=True filter
EnabledSchedule_IgnoreFlag(doctor, date) == schedule[<<doctor, Weekday(date)>>]

\* DoctorSchedule.objects.filter(doctor, day_of_week, is_available=True).first()
EnabledSchedule(doctor, date) ==
    LET row == schedule[<<doctor, Weekday(date)>>]
    IN  IF row.exists /\ row.is_available THEN row ELSE NoSchedule

\* validate with the past check moved in front of the availability check
Validate_PastFirst(doctor, patient, date, t, selfId) ==
    IF InPast(date, t) THEN "in_the_past"
    ELSE IF ~available[doctor] THEN "doctor_not_available"
    ELSE IF ~EnabledSchedule(doctor, date).exists THEN "not_available_on_day"
    ELSE IF t < EnabledSchedule(doctor, date).start_time
            \/ t >= EnabledSchedule(doctor, date).end_time THEN "outside_schedule_hours"
    ELSE IF check_overlap(doctor, patient, date, t, selfId) THEN "conflict"
    ELSE "ok"

\* The checks of AppointmentCreateSerializer.validate and of the date/time
\* branch of AppointmentUpdateSerializer.validate, in the order of the code.
\* The verdict is the ValidationError raised, or "ok".
Validate(doctor, patient, date, t, selfId) ==
    IF ~available[doctor] THEN "doctor_not_available"
    ELSE IF InPast(date, t) THEN "in_the_past"
    ELSE IF ~EnabledSchedule(doctor, date).exists THEN "not_available_on_day"
    ELSE IF t < EnabledSchedule(doctor, date).start_time
            \/ t >= EnabledSchedule(doctor, date).end_time THEN "outside_schedule_hours"
    ELSE IF check_overlap(doctor, patient, date, t, selfId) THEN "conflict"
    ELSE "ok"

\* ------------------------------------------------------------- the checks, as specified
\* The scheduling rules in the terms of the design: resp.failed names the
\* rules a validated request breaks.  It is a history field: no handler
\* reads it.
Stamp(date, t) == date * MinutesPerDay + t

\* [a, a+30) and [b, b+30) overlap
Overlap30(a, b) == a < b + SlotMinutes /\ b < a + SlotMinutes

\* time falls in [start, end) of an enabled window of the date's weekday
WindowCovers(doctor, date, t) ==
    LET w == schedule[<<doctor, Weekday(date)>>]
    IN  w.exists /\ w.is_available /\ w.start_time <= t /\ t < w.end_time

ActiveClash(i, date, t, selfId) ==
    /\ i # selfId
    /\ appts[i].status \in ActiveStatuses
    /\ appts[i].scheduled_date = date
    /\ Overlap30(t, appts[i].scheduled_time)

CheckOrder == <<"doctor_available", "not_in_past", "inside_schedule",
                "doctor_overlap", "patient_overlap">>

FailedChecks(doctor, patient, date, t, selfId) ==
    {c \in {"doctor_available"} : ~available[doctor]}
    \cup {c \in {"not_in_past"} : Stamp(date, t) < Stamp(now[1], now[2])}
    \cup {c \in {"inside_schedule"} : ~WindowCovers(doctor, date, t)}
    \cup {c \in {"doctor_overlap"} :
            \E i \in Ids : appts[i].doctor = doctor /\ ActiveClash(i, date, t, selfId)}
    \cup {c \in {"patient_overlap"} :
            \E i \in Ids : appts[i].patient = patient /\ ActiveClash(i, date, t, selfId)}

\* No response is pending.
NoResp == [op |-> "none", id |-> 0, result |-> "none", failed |-> {}, fx |-> <<>>]

\* ------------------------------------------------------------- initial state
\* dA works Mondays 09:00-10:00 and has no Tuesday row; dB works Mondays
\* 09:15-10:00 and has a Tuesday row that is switched off.
InitSchedule ==
    [k \in Doctors \X {0, 1} |->
        IF k = <<"dA", 0>>
          THEN [start_time |-> 540, end_time |-> 600, is_available |-> TRUE, exists |-> TRUE]
        ELSE IF k = <<"dB", 0>>
          THEN [start_time |-> 555, end_time |-> 600, is_available |-> TRUE, exists |-> TRUE]
        ELSE IF k = <<"dB", 1>>
          THEN [start_time |-> 555, end_time |-> 600, is_available |-> FALSE, exists |-> TRUE]
        ELSE NoSchedule]

\* Calendar service built and answering, Notification table writable.
AllUp == [calendar |-> "up", notifications |-> "ok"]

\* No appointment has a VideoCallRoom.
NoRooms == [i \in 1..MaxAppts |-> "none"]

Init ==
    /\ appts = <<>>
    /\ available = [d \in Doctors |-> TRUE]
    /\ schedule = InitSchedule
    /\ now = <<1, 0>>
    /\ reqs = {}
    /\ resp = NoResp
    /\ service = AllUp
    /\ rooms = NoRooms

\* ------------------------------------------------------------- rows
\* The row perform_create inserts: status takes the model default.
NewRow(patient, doctor, kind, date, t) ==
    [patient |-> patient, doctor |-> doctor, appointment_type |-> kind,
     status |-> "scheduled", scheduled_date |-> date, scheduled_time |-> t,
     google_calendar_event_id |-> "none"]

\* attrs.get(field, instance.field)
Get(attrs, field, default) == IF field \in DOMAIN attrs THEN attrs[field] ELSE default

\* ModelSerializer.update: setattr for every validated field, then instance.save()
ApplyAttrs(instance, attrs) ==
    [instance EXCEPT !.scheduled_date = Get(attrs, "scheduled_date", instance.scheduled_date),
                     !.scheduled_time = Get(attrs, "scheduled_time", instance.scheduled_time),
                     !.status = Get(attrs, "status", instance.status)]

\* ------------------------------------------------------------- signal receivers
\* What a receiver did is listed as effects: kind "calendar" with what
\* "create" or "update" and to the outcome, kind "notification" with what the
\* title and to the user notified.
Effect(kind, what, to) == [kind |-> kind, what |-> what, to |-> to]

\* get_calendar_service() followed by a call on the service: "unavailable"
\* when there is no service object, "failed" when the call raises or returns
\* nothing, "event" when it succeeds.
CalendarOutcome ==
    CASE service.calendar = "down" -> "unavailable"
      [] service.calendar = "fails" -> "failed"
      [] OTHER -> "event"

\* the receiver provisioning on any save of a video row without an event
create_google_calendar_event_AnySave(instance, created) ==
    IF instance.appointment_type # "video"
      THEN [row |-> instance, fx |-> <<>>]
      ELSE IF instance.google_calendar_event_id = "none"
        THEN [row |-> IF CalendarOutcome = "event"
                        THEN [instance EXCEPT !.google_calendar_event_id = "evt"]
                        ELSE instance,
              fx |-> <<Effect("calendar", "create", CalendarOutcome)>>]
        ELSE [row |-> instance,
              fx |-> IF CalendarOutcome = "unavailable"
                       THEN <<>>
                       ELSE <<Effect("calendar", "update", CalendarOutcome)>>]

\* appointments.signals.create_google_calendar_event (post_save): the row as
\* the receiver leaves it in the table, and the calendar effects
create_google_calendar_event(instance, created) ==
    IF instance.appointment_type # "video"
      THEN [row |-> instance, fx |-> <<>>]
      ELSE IF created /\ instance.google_calendar_event_id = "none"
        THEN [row |-> IF CalendarOutcome = "event"
                        THEN [instance EXCEPT !.google_calendar_event_id = "evt"]
                        ELSE instance,
              fx |-> <<Effect("calendar", "create", CalendarOutcome)>>]
        ELSE IF ~created /\ instance.google_calendar_event_id # "none"
          THEN [row |-> instance,
                fx |-> IF CalendarOutcome = "unavailable"
                         THEN <<>>
                         ELSE <<Effect("calendar", "update", CalendarOutcome)>>]
          ELSE [row |-> instance, fx |-> <<>>]

\* appointments.signals.delete_google_calendar_event (pre_delete): sent only
\* when an Appointment row is deleted; destroy() saves the row instead.
delete_google_calendar_event(instance) ==
    IF instance.google_calendar_event_id # "none" /\ CalendarOutcome # "unavailable"
      THEN <<Effect("calendar", "delete", CalendarOutcome)>>
      ELSE <<>>

\* notifications.signals.create_appointment_notifications (post_save): the
\* Notification rows it creates, in order
create_appointment_notifications(instance, created) ==
    IF created
      THEN <<Effect("notification", "Appointment Scheduled", instance.patient),
             Effect("notification", "New Appointment", instance.doctor)>>
      ELSE CASE instance.status = "confirmed" ->
                  <<Effect("notification", "Appointment Confirmed", instance.patient)>>
             [] instance.status = "cancelled" ->
                  <<Effect("notification", "Appointment Cancelled", instance.patient),
                    Effect("notification", "Appointment Cancelled", instance.doctor)>>
             [] instance.status = "completed" ->
                  <<Effect("notification", "Appointment Completed", instance.patient)>>
             [] OTHER -> <<>>

\* Model.save() after the row is written: post_save is sent to the calendar
\* receiver, then to the notification receiver.  The calendar receiver catches
\* its exceptions; Notification.objects.create is not guarded, so its
\* exception leaves save() (raised), the row staying written.
post_save(instance, created) ==
    LET cal == create_google_calendar_event(instance, created)
        notes == create_appointment_notifications(cal.row, created)
        raised == service.notifications = "fails" /\ notes # <<>>
    IN  [row |-> cal.row,
         fx |-> cal.fx \o (IF raised THEN <<>> ELSE notes),
         raised |-> raised]

\* AppointmentDetailView.perform_update: the row after its save or saves,
\* what the receivers did, and whether a save raised
perform_update(instance, attrs) ==
    LET new_status == Get(attrs, "status", instance.status)
        first == IF new_status = "completed" /\ instance.status # "completed"
                   THEN post_save([instance EXCEPT !.status = "completed"], FALSE)
                   ELSE [row |-> instance, fx |-> <<>>, raised |-> FALSE]
        second == post_save(ApplyAttrs(first.row, attrs), FALSE)
    IN  IF first.raised
          THEN first
          ELSE [row |-> second.row, fx |-> first.fx \o second.fx,
                raised |-> second.raised]

\* AppointmentUpdateSerializer.validate
ValidateUpdate(instance, attrs, id) ==
    IF "scheduled_date" \in DOMAIN attrs \/ "scheduled_time" \in DOMAIN attrs
      THEN Validate(instance.doctor, instance.patient,
                    Get(attrs, "scheduled_date", instance.scheduled_date),
                    Get(attrs, "scheduled_time", instance.scheduled_time), id)
      ELSE "ok"

FailedUpdate(instance, attrs, id) ==
    IF "scheduled_date" \in DOMAIN attrs \/ "scheduled_time" \in DOMAIN attrs
      THEN FailedChecks(instance.doctor, instance.patient,
                        Get(attrs, "scheduled_date", instance.scheduled_date),
                        Get(attrs, "scheduled_time", instance.scheduled_time), id)
      ELSE {}

\* destroy marking the row completed instead of cancelled
CancelRow_Completed(instance) == [instance EXCEPT !.status = "completed"]

\* AppointmentDetailView.destroy: the row it saves
CancelRow(instance) == [instance EXCEPT !.status = "cancelled"]

\* ------------------------------------------------------------- whole handlers
\* POST appointments/: is_valid(), then perform_create
Book(patient, doctor, kind, date, t) ==
    LET verdict == Validate(doctor, patient, date, t, 0)
        saved == post_save(NewRow(patient, doctor, kind, date, t), TRUE)
    IN  /\ reqs = {}
        /\ resp = NoResp
        /\ verdict = "ok" => Len(appts) < MaxAppts
        /\ appts' = IF verdict = "ok" THEN Append(appts, saved.row) ELSE appts
        /\ resp' = [op |-> "book",
                    id |-> IF verdict = "ok" THEN Len(appts) + 1 ELSE 0,
                    result |-> CASE verdict # "ok" -> verdict
                                 [] saved.raised -> "server_error"
                                 [] OTHER -> "created",
                    failed |-> FailedChecks(doctor, patient, date, t, 0),
                    fx |-> IF verdict = "ok" THEN saved.fx ELSE <<>>]
        /\ UNCHANGED <<available, schedule, now, reqs, service, rooms>>

\* an update that saves before it validates
Update_SavesFirst(id, attrs) ==
    /\ reqs = {}
    /\ resp = NoResp
    /\ IF id \notin Ids
         THEN /\ resp' = [op |-> "update", id |-> id, result |-> "not_found",
                           failed |-> {}, fx |-> <<>>]
              /\ appts' = appts
         ELSE LET verdict == ValidateUpdate(appts[id], attrs, id)
                  saved == perform_update(appts[id], attrs)
              IN  /\ appts' = [appts EXCEPT ![id] = saved.row]
                  /\ resp' = [op |-> "update", id |-> id,
                              result |-> CASE verdict # "ok" -> verdict
                                           [] saved.raised -> "server_error"
                                           [] OTHER -> "updated",
                              failed |-> FailedUpdate(appts[id], attrs, id),
                              fx |-> saved.fx]
    /\ UNCHANGED <<available, schedule, now, reqs, service, rooms>>

\* PUT/PATCH appointments/<pk>/: get_object(), is_valid(), perform_update
Update(id, attrs) ==
    /\ reqs = {}
    /\ resp = NoResp
    /\ IF id \notin Ids
         THEN /\ resp' = [op |-> "update", id |-> id, result |-> "not_found",
                           failed |-> {}, fx |-> <<>>]
              /\ appts' = appts
         ELSE LET verdict == ValidateUpdate(appts[id], attrs, id)
                  saved == perform_update(appts[id], attrs)
              IN  /\ appts' = IF verdict = "ok"
                                THEN [appts EXCEPT ![id] = saved.row]
                                ELSE appts
                  /\ resp' = [op |-> "update", id |-> id,
                              result |-> CASE verdict # "ok" -> verdict
                                           [] saved.raised -> "server_error"
                                           [] OTHER -> "updated",
                              failed |-> FailedUpdate(appts[id], attrs, id),
                              fx |-> IF verdict = "ok" THEN saved.fx ELSE <<>>]
    /\ UNCHANGED <<available, schedule, now, reqs, service, rooms>>

\* DELETE appointments/<pk>/
Cancel(id) ==
    /\ reqs = {}
    /\ resp = NoResp
    /\ IF id \notin Ids
         THEN /\ resp' = [op |-> "cancel", id |-> id, result |-> "not_found",
                           failed |-> {}, fx |-> <<>>]
              /\ appts' = appts
         ELSE LET saved == post_save(CancelRow(appts[id]), FALSE)
              IN  /\ appts' = [appts EXCEPT ![id] = saved.row]
                  /\ resp' = [op |-> "cancel", id |-> id,
                              result |-> IF saved.raised THEN "server_error"
                                                         ELSE "cancelled",
                              failed |-> {}, fx |-> saved.fx]
    /\ UNCHANGED <<available, schedule, now, reqs, service, rooms>>

\* PATCH doctors/profile/ with the field 'available'
SetAvailable(doctor, flag) ==
    /\ resp = NoResp
    /\ available[doctor] # flag
    /\ available' = [available EXCEPT ![doctor] = flag]
    /\ UNCHANGED <<appts, schedule, now, reqs, resp, service, rooms>>

\* Time passes: datetime.now() reads later.
Tick(point) ==
    /\ point \in ClockPoints
    /\ \/ now[1] < point[1]
       \/ now[1] = point[1] /\ now[2] < point[2]
    /\ resp = NoResp
    /\ now' = point
    /\ UNCHANGED <<appts, available, schedule, reqs, resp, service, rooms>>

\* The response leaves the server; the next request is taken.
Respond ==
    /\ resp # NoResp
    /\ resp' = NoResp
    /\ UNCHANGED <<appts, available, schedule, now, reqs, service, rooms>>

\* ------------------------------------------------------------- requests
\* The request bodies the model sends.  dA consults by video, dB in person.
KindOf(doctor) == IF doctor = "dA" THEN "video" ELSE "in_person"

\* A body is the dict of the fields it carries (validated_data).
UpdateBodies ==
    [status : STATUS_CHOICES]
    \cup [notes : {"edited"}]
    \cup [scheduled_time : Times]
    \cup [scheduled_date : {2}]
    \cup [scheduled_time : {555}, status : {"scheduled", "completed"}]

\* Bookings for Monday at every time, and for Tuesday at 09:15.
BookSlots == (Dates \X Times) \ {<<2, 540>>, <<2, 600>>}
\* p1 consults both doctors, p2 consults dA.
BookPairs == {<<"p1", "dA">>, <<"p1", "dB">>, <<"p2", "dA">>}

Next ==
    \/ \E pd \in BookPairs, s \in BookSlots :
          Book(pd[1], pd[2], KindOf(pd[2]), s[1], s[2])
    \/ \E id \in 1..MaxAppts, a \in UpdateBodies : Update(id, a)
    \/ \E id \in 1..MaxAppts : Cancel(id)
    \/ \E flag \in BOOLEAN : SetAvailable("dB", flag)
    \/ \E point \in ClockPoints : Tick(point)
    \/ Respond

Spec == Init /\ [][Next]_vars

\* ------------------------------------------------------------- handler steps
\* The same handlers, one step per table access: is_valid() reads the
\* tables, perform_create / perform_update writes them.  Django runs each
\* query in autocommit and the views open no transaction, so the steps of
\* concurrent requests interleave.

\* a validation that saves the row it checked
BookValidate_Saves(patient, doctor, kind, date, t) ==
    LET verdict == Validate(doctor, patient, date, t, 0)
    IN  /\ resp = NoResp
        /\ Cardinality(reqs) < MaxInFlight
        /\ Len(appts) < MaxAppts
        /\ appts' = IF verdict = "ok"
                      THEN Append(appts, NewRow(patient, doctor, kind, date, t))
                      ELSE appts
        /\ resp' = [op |-> "book", id |-> 0,
                    result |-> IF verdict = "ok" THEN "valid" ELSE verdict,
                    failed |-> FailedChecks(doctor, patient, date, t, 0), fx |-> <<>>]
        /\ UNCHANGED <<available, schedule, now, reqs, service, rooms>>

\* POST appointments/ up to serializer.is_valid()
BookValidate(patient, doctor, kind, date, t) ==
    LET verdict == Validate(doctor, patient, date, t, 0)
        r == [op |-> "book", id |-> 0, row |-> NewRow(patient, doctor, kind, date, t),
              attrs |-> [notes |-> "none"]]
    IN  /\ resp = NoResp
        /\ Cardinality(reqs) < MaxInFlight
        /\ r \notin reqs
        /\ reqs' = IF verdict = "ok" THEN reqs \cup {r} ELSE reqs
        /\ resp' = [op |-> "book", id |-> 0,
                    result |-> IF verdict = "ok" THEN "valid" ELSE verdict,
                    failed |-> FailedChecks(doctor, patient, date, t, 0), fx |-> <<>>]
        /\ UNCHANGED <<appts, available, schedule, now, service, rooms>>

\* AppointmentListView.perform_create: serializer.save(patient=request.user)
BookSave(r) ==
    /\ resp = NoResp
    /\ r \in reqs
    /\ r.op = "book"
    /\ Len(appts) < MaxAppts
    /\ LET saved == post_save(r.row, TRUE)
       IN  /\ appts' = Append(appts, saved.row)
           /\ resp' = [op |-> "book", id |-> Len(appts) + 1,
                       result |-> IF saved.raised THEN "server_error" ELSE "created",
                       failed |-> {}, fx |-> saved.fx]
    /\ reqs' = reqs \ {r}
    /\ UNCHANGED <<available, schedule, now, service, rooms>>

\* PUT/PATCH appointments/<pk>/ up to serializer.is_valid(): get_object()
\* loads the row, validate() reads the tables
UpdateValidate(id, attrs) ==
    /\ resp = NoResp
    /\ Cardinality(reqs) < MaxInFlight
    /\ id \in Ids
    /\ LET verdict == ValidateUpdate(appts[id], attrs, id)
           r == [op |-> "update", id |-> id, row |-> appts[id], attrs |-> attrs]
       IN  /\ r \notin reqs
           /\ reqs' = IF verdict = "ok" THEN reqs \cup {r} ELSE reqs
           /\ resp' = [op |-> "update", id |-> id,
                       result |-> IF verdict = "ok" THEN "valid" ELSE verdict,
                       failed |-> FailedUpdate(appts[id], attrs, id), fx |-> <<>>]
    /\ UNCHANGED <<appts, available, schedule, now, service, rooms>>

\* AppointmentDetailView.perform_update: the loaded instance, with the
\* validated fields set, is written back whole
UpdateSave(r) ==
    /\ resp = NoResp
    /\ r \in reqs
    /\ r.op = "update"
    /\ LET saved == perform_update(r.row, r.attrs)
       IN  /\ appts' = [appts EXCEPT ![r.id] = saved.row]
           /\ resp' = [op |-> "update", id |-> r.id,
                       result |-> IF saved.raised THEN "server_error" ELSE "updated",
                       failed |-> {}, fx |-> saved.fx]
    /\ reqs' = reqs \ {r}
    /\ UNCHANGED <<available, schedule, now, service, rooms>>

\* Concurrent clients: Monday bookings at 09:00 and 09:15, and moves to
\* 09:00 or 09:15.
RaceSlots == {<<1, 540>>, <<1, 555>>}
RaceBodies == [scheduled_time : {540, 555}]

RaceNext ==
    \/ \E pd \in BookPairs, s \in RaceSlots :
          BookValidate(pd[1], pd[2], KindOf(pd[2]), s[1], s[2])
    \/ \E r \in reqs : BookSave(r)
    \/ \E id \in 1..MaxAppts, a \in RaceBodies : UpdateValidate(id, a)
    \/ \E r \in reqs : UpdateSave(r)
    \/ Respond

RaceSpec == Init /\ [][RaceNext]_vars

\* ------------------------------------------------------------- availability
\* GET doctors/<doctor_id>/availability/?date=...

\* current.strftime('%H:%M'): a time of day as <<hour, minute>>
strftime(t) == <<t \div 60, t % 60>>

\* existing_appointments: the scheduled_time values of the doctor's active
\* rows on the date
existing_appointments(doctor, date) ==
    {appts[i].scheduled_time :
        i \in {j \in Ids : /\ appts[j].doctor = doctor
                           /\ appts[j].scheduled_date = date
                           /\ appts[j].status \in ActiveStatuses}}

\* the loop test with <= in place of <
LoopTest_Inclusive(current, end_time) == current <= end_time

\* while current < schedule.end_time
LoopTest(current, end_time) == current < end_time

\* hour = current.hour; minute = current.minute + 30;
\* if minute >= 60: hour += 1; minute = 0
AddHalfHour(current) ==
    LET hour == current \div 60
        minute == (current % 60) + SlotMinutes
    IN  IF minute >= 60 THEN <<hour + 1, 0>> ELSE <<hour, minute>>

\* The while loop of doctor_availability.  time(hour, minute) raises
\* ValueError for hour 24: the loop ends with the exception.
RECURSIVE available_slots(_, _, _, _)
available_slots(current, end_time, existing, acc) ==
    IF ~LoopTest(current, end_time) THEN [raised |-> FALSE, slots |-> acc]
    ELSE LET kept == IF current \notin existing THEN Append(acc, strftime(current)) ELSE acc
             hm == AddHalfHour(current)
         IN  IF hm[1] > 23 THEN [raised |-> TRUE, slots |-> <<>>]
             ELSE available_slots(hm[1] * 60 + hm[2], end_time, existing, kept)

\* the handler with a schedule query that leaves out is_available=True
doctor_availability_IgnoresFlag(doctor_id, date) ==
    IF doctor_id \notin Doctors
      THEN [op |-> "availability", id |-> 0, result |-> "not_found", failed |-> {},
            doctor_id |-> doctor_id, date |-> date, available_slots |-> <<>>, message |-> FALSE]
    ELSE IF ~schedule[<<doctor_id, Weekday(date)>>].exists
      THEN [op |-> "availability", id |-> 0, result |-> "ok", failed |-> {},
            doctor_id |-> doctor_id, date |-> date, available_slots |-> <<>>, message |-> TRUE]
    ELSE LET out == available_slots(schedule[<<doctor_id, Weekday(date)>>].start_time,
                                    schedule[<<doctor_id, Weekday(date)>>].end_time,
                                    existing_appointments(doctor_id, date), <<>>)
         IN  [op |-> "availability", id |-> 0,
              result |-> IF out.raised THEN "server_error" ELSE "ok", failed |-> {},
              doctor_id |-> doctor_id, date |-> date,
              available_slots |-> out.slots, message |-> FALSE]

\* doctor_availability: the response.  An exception that leaves the view is
\* answered by Django with status 500.
doctor_availability(doctor_id, date) ==
    IF doctor_id \notin Doctors
      THEN [op |-> "availability", id |-> 0, result |-> "not_found", failed |-> {},
            doctor_id |-> doctor_id, date |-> date, available_slots |-> <<>>, message |-> FALSE]
    ELSE IF ~EnabledSchedule(doctor_id, date).exists
      THEN [op |-> "availability", id |-> 0, result |-> "ok", failed |-> {},
            doctor_id |-> doctor_id, date |-> date, available_slots |-> <<>>, message |-> TRUE]
    ELSE LET out == available_slots(EnabledSchedule(doctor_id, date).start_time,
                                    EnabledSchedule(doctor_id, date).end_time,
                                    existing_appointments(doctor_id, date), <<>>)
         IN  [op |-> "availability", id |-> 0,
              result |-> IF out.raised THEN "server_error" ELSE "ok", failed |-> {},
              doctor_id |-> doctor_id, date |-> date,
              available_slots |-> out.slots, message |-> FALSE]

Availability(doctor_id, date) ==
    /\ resp = NoResp
    /\ resp' = doctor_availability(doctor_id, date)
    /\ UNCHANGED <<appts, available, schedule, now, reqs, service, rooms>>

\* The handler steps again, with the clock and the doctor's flag changing
\* between them: Monday and Tuesday bookings, moves to 09:00 or 09:15.
CheckSlots == {<<1, 540>>, <<1, 555>>, <<2, 555>>}

CheckNext ==
    \/ \E pd \in BookPairs, s \in CheckSlots :
          BookValidate(pd[1], pd[2], KindOf(pd[2]), s[1], s[2])
    \/ \E r \in reqs : BookSave(r)
    \/ \E id \in 1..MaxAppts, a \in RaceBodies : UpdateValidate(id, a)
    \/ \E r \in reqs : UpdateSave(r)
    \/ \E flag \in BOOLEAN : SetAvailable("dB", flag)
    \/ \E point \in ClockPoints : Tick(point)
    \/ Respond

CheckSpec == Init /\ [][CheckNext]_vars

\* PATCH doctors/schedule/<pk>/ with the field 'is_available'
SetScheduleAvailable(doctor, day_of_week, flag) ==
    /\ resp = NoResp
    /\ schedule[<<doctor, day_of_week>>].exists
    /\ schedule[<<doctor, day_of_week>>].is_available # flag
    /\ schedule' = [schedule EXCEPT ![<<doctor, day_of_week>>].is_available = flag]
    /\ UNCHANGED <<appts, available, now, reqs, resp, service, rooms>>

\* ------------------------------------------------------------- the whole day
\* The same handlers with schedules and times from all over the day.
\* Day 3 is a Wednesday: no doctor has a row for it.
QueryDates == {1, 2, 3}
\* A doctor id no Doctor row has.
QueryDoctors == Doctors \cup {"dX"}

\* dA's Monday window: 00:00-23:59, 09:00-12:00, 09:15-11:00, 22:00-23:59
MondayWindows == {<<0, 1439>>, <<540, 720>>, <<555, 660>>, <<1320, 1439>>}

\* dA works the Monday window and Tuesdays 09:00-10:00; dB works Mondays the
\* whole day and has a Tuesday row that is switched off.
WeekSchedule(w) ==
    [k \in Doctors \X {0, 1, 2} |->
        IF k = <<"dA", 0>>
          THEN [start_time |-> w[1], end_time |-> w[2], is_available |-> TRUE, exists |-> TRUE]
        ELSE IF k = <<"dA", 1>>
          THEN [start_time |-> 540, end_time |-> 600, is_available |-> TRUE, exists |-> TRUE]
        ELSE IF k = <<"dB", 0>>
          THEN [start_time |-> 0, end_time |-> 1439, is_available |-> TRUE, exists |-> TRUE]
        ELSE IF k = <<"dB", 1>>
          THEN [start_time |-> 540, end_time |-> 600, is_available |-> FALSE, exists |-> TRUE]
        ELSE NoSchedule]

DayInit ==
    /\ appts = <<>>
    /\ available = [d \in Doctors |-> TRUE]
    /\ schedule \in {WeekSchedule(w) : w \in MondayWindows}
    /\ now = <<1, 0>>
    /\ reqs = {}
    /\ resp = NoResp
    /\ service = AllUp
    /\ rooms = NoRooms

\* 09:30, 09:45, 10:00, 23:30, 23:45
DayTimes == {570, 585, 600, 1410, 1425}
\* Monday at every time, Tuesday at 09:30
DaySlots == ({1} \X DayTimes) \cup {<<2, 570>>}
DayBodies == [scheduled_time : DayTimes] \cup [status : {"completed"}]

DayNext ==
    \/ \E pd \in BookPairs, s \in DaySlots :
          Book(pd[1], pd[2], KindOf(pd[2]), s[1], s[2])
    \/ \E id \in 1..MaxAppts, a \in DayBodies : Update(id, a)
    \/ \E id \in 1..MaxAppts : Cancel(id)
    \/ \E d \in QueryDoctors, date \in QueryDates : Availability(d, date)
    \/ \E flag \in BOOLEAN : SetScheduleAvailable("dA", 1, flag)
    \/ Respond

DaySpec == DayInit /\ [][DayNext]_vars

\* The availability endpoint beside dA's bookings alone: Monday 09:30 and
\* 10:00, Tuesday 09:30.
SlotPairs == {<<"p1", "dA">>, <<"p2", "dA">>}
SlotBookings == {<<1, 570>>, <<1, 600>>, <<2, 570>>}

SlotNext ==
    \/ \E pd \in SlotPairs, s \in SlotBookings :
          Book(pd[1], pd[2], KindOf(pd[2]), s[1], s[2])
    \/ \E id \in 1..MaxAppts : Cancel(id)
    \/ \E d \in QueryDoctors, date \in QueryDates : Availability(d, date)
    \/ \E flag \in BOOLEAN : SetScheduleAvailable("dA", 1, flag)
    \/ Respond

SlotSpec == DayInit /\ [][SlotNext]_vars

\* ------------------------------------------------------------- reminders
\* timezone.now().date() + timedelta(days=1)
Tomorrow == now[1] + 1

\* The statuses create_appointment_reminders filters on.
ReminderStatuses == {"scheduled", "confirmed"}

\* notifications.signals.create_appointment_reminders: the loop over the
\* queryset, from row i on
RECURSIVE reminders_from(_)
reminders_from(i) ==
    IF i > Len(appts) THEN <<>>
    ELSE IF appts[i].scheduled_date = Tomorrow /\ appts[i].status \in ReminderStatuses
      THEN <<Effect("notification", "Appointment Reminder", appts[i].patient),
             Effect("notification", "Appointment Reminder", appts[i].doctor)>>
           \o reminders_from(i + 1)
      ELSE reminders_from(i + 1)

create_appointment_reminders == reminders_from(1)

\* The scheduled task runs create_appointment_reminders.
Reminders ==
    LET notes == create_appointment_reminders
        raised == service.notifications = "fails" /\ notes # <<>>
    IN  /\ resp = NoResp
        /\ reqs = {}
        /\ resp' = [op |-> "reminders", id |-> 0,
                    result |-> IF raised THEN "server_error" ELSE "done",
                    failed |-> {}, fx |-> IF raised THEN <<>> ELSE notes]
        /\ UNCHANGED <<appts, available, schedule, now, reqs, service, rooms>>

\* ------------------------------------------------------------- video rooms
\* GET video/appointment/<appointment_id>/room/: get_or_create of the room
get_room_by_appointment(appointment_id) ==
    /\ resp = NoResp
    /\ reqs = {}
    /\ IF appointment_id \notin Ids
         THEN /\ resp' = [op |-> "room", id |-> appointment_id, result |-> "not_found",
                           failed |-> {}, fx |-> <<>>]
              /\ rooms' = rooms
         ELSE /\ rooms' = IF rooms[appointment_id] = "none"
                            THEN [rooms EXCEPT ![appointment_id] = "scheduled"]
                            ELSE rooms
              /\ resp' = [op |-> "room", id |-> appointment_id, result |-> "ok",
                          failed |-> {}, fx |-> <<>>]
    /\ UNCHANGED <<appts, available, schedule, now, reqs, service>>

\* POST video/room/<room_id>/join/: the room of appointment room_id
join_room(room_id) ==
    /\ resp = NoResp
    /\ reqs = {}
    /\ IF rooms[room_id] = "none"
         THEN /\ resp' = [op |-> "join", id |-> room_id, result |-> "not_found",
                           failed |-> {}, fx |-> <<>>]
              /\ rooms' = rooms
         ELSE /\ rooms' = IF rooms[room_id] = "scheduled"
                            THEN [rooms EXCEPT ![room_id] = "active"]
                            ELSE rooms
              /\ resp' = [op |-> "join", id |-> room_id, result |-> "joined",
                          failed |-> {}, fx |-> <<>>]
    /\ UNCHANGED <<appts, available, schedule, now, reqs, service>>

\* ------------------------------------------------------------- side effects
\* The handlers with every condition of the two collaborators.
Services == [calendar : {"up", "down", "fails"}, notifications : {"ok", "fails"}]

FxInit ==
    /\ appts = <<>>
    /\ available = [d \in Doctors |-> TRUE]
    /\ schedule = WeekSchedule(<<540, 720>>)
    /\ now = <<1, 0>>
    /\ reqs = {}
    /\ resp = NoResp
    /\ service \in Services
    /\ rooms = NoRooms

\* p1 books dA (video) and dB (in person), Monday or Tuesday at 09:30.
FxPairs == {<<"p1", "dA">>, <<"p1", "dB">>}
FxSlots == {<<1, 570>>, <<2, 570>>}
FxBodies ==
    [status : {"confirmed", "in_progress", "completed"}]
    \cup [notes : {"edited"}]
    \cup [scheduled_time : {600}]

FxNext ==
    \/ \E pd \in FxPairs, s \in FxSlots :
          Book(pd[1], pd[2], KindOf(pd[2]), s[1], s[2])
    \/ \E id \in 1..MaxAppts, a \in FxBodies : Update(id, a)
    \/ \E id \in 1..MaxAppts : Cancel(id)
    \/ Reminders
    \/ Respond

FxSpec == FxInit /\ [][FxNext]_vars

\* Video consultations: dA's patients book, the doctor confirms or cancels,
\* the participants open the room and join it.
RoomBodies == [status : {"confirmed"}]

RoomNext ==
    \/ \E pd \in SlotPairs, s \in FxSlots :
          Book(pd[1], pd[2], KindOf(pd[2]), s[1], s[2])
    \/ \E id \in 1..MaxAppts, a \in RoomBodies : Update(id, a)
    \/ \E id \in 1..MaxAppts : Cancel(id)
    \/ \E id \in 1..MaxAppts : get_room_by_appointment(id)
    \/ \E id \in 1..MaxAppts : join_room(id)
    \/ Respond

RoomSpec == DayInit /\ [][RoomNext]_vars

\* ------------------------------------------------------------- schedule rows
\* POST doctors/schedule/: DoctorScheduleSerializer has no validate() and no
\* doctor field, so only the table's unique_together stops a second row for
\* the day (IntegrityError out of save()).
ScheduleCreate(doctor, day_of_week, start_time, end_time) ==
    /\ resp = NoResp
    /\ reqs = {}
    /\ IF schedule[<<doctor, day_of_week>>].exists
         THEN /\ schedule' = schedule
              /\ resp' = [op |-> "schedule_create", id |-> day_of_week,
                          result |-> "server_error", failed |-> {}, fx |-> <<>>]
         ELSE /\ schedule' = [schedule EXCEPT ![<<doctor, day_of_week>>] =
                                 [start_time |-> start_time, end_time |-> end_time,
                                  is_available |-> TRUE, exists |-> TRUE]]
              /\ resp' = [op |-> "schedule_create", id |-> day_of_week,
                          result |-> "created", failed |-> {}, fx |-> <<>>]
    /\ UNCHANGED <<appts, available, now, reqs, service, rooms>>

\* PUT/PATCH doctors/schedule/<pk>/ with start_time and end_time
ScheduleUpdate(doctor, day_of_week, start_time, end_time) ==
    /\ resp = NoResp
    /\ reqs = {}
    /\ IF ~schedule[<<doctor, day_of_week>>].exists
         THEN /\ schedule' = schedule
              /\ resp' = [op |-> "schedule_update", id |-> day_of_week,
                          result |-> "not_found", failed |-> {}, fx |-> <<>>]
         ELSE /\ schedule' = [schedule EXCEPT
                                 ![<<doctor, day_of_week>>].start_time = start_time,
                                 ![<<doctor, day_of_week>>].end_time = end_time]
              /\ resp' = [op |-> "schedule_update", id |-> day_of_week,
                          result |-> "updated", failed |-> {}, fx |-> <<>>]
    /\ UNCHANGED <<appts, available, now, reqs, service, rooms>>

\* PATCH doctors/schedule/<pk>/ with day_of_week: the row moves to another
\* day unless the doctor has a row there (IntegrityError out of save()).
ScheduleMove(doctor, day_of_week, new_day) ==
    /\ resp = NoResp
    /\ reqs = {}
    /\ new_day # day_of_week
    /\ IF ~schedule[<<doctor, day_of_week>>].exists
         THEN /\ schedule' = schedule
              /\ resp' = [op |-> "schedule_update", id |-> day_of_week,
                          result |-> "not_found", failed |-> {}, fx |-> <<>>]
         ELSE IF schedule[<<doctor, new_day>>].exists
           THEN /\ schedule' = schedule
                /\ resp' = [op |-> "schedule_update", id |-> day_of_week,
                            result |-> "server_error", failed |-> {}, fx |-> <<>>]
           ELSE /\ schedule' = [schedule EXCEPT
                                   ![<<doctor, new_day>>] = schedule[<<doctor, day_of_week>>],
                                   ![<<doctor, day_of_week>>] = NoSchedule]
                /\ resp' = [op |-> "schedule_update", id |-> day_of_week,
                            result |-> "updated", failed |-> {}, fx |-> <<>>]
    /\ UNCHANGED <<appts, available, now, reqs, service, rooms>>

\* DELETE doctors/schedule/<pk>/
ScheduleDelete(doctor, day_of_week) ==
    /\ resp = NoResp
    /\ reqs = {}
    /\ schedule[<<doctor, day_of_week>>].exists
    /\ schedule' = [schedule EXCEPT ![<<doctor, day_of_week>>] = NoSchedule]
    /\ resp' = [op |-> "schedule_delete", id |-> day_of_week,
                result |-> "deleted", failed |-> {}, fx |-> <<>>]
    /\ UNCHANGED <<appts, available, now, reqs, service, rooms>>

\* The windows dA sends: 09:00-10:00, 10:00-09:00, 09:00-09:00
SentWindows == {<<540, 600>>, <<600, 540>>, <<540, 540>>}
ScheduleDays == {0, 1, 2}

\* dA edits the week's rows; patients book Monday 09:30 meanwhile.
ScheduleNext ==
    \/ \E day \in ScheduleDays, w \in SentWindows : ScheduleCreate("dA", day, w[1], w[2])
    \/ \E day \in ScheduleDays, w \in SentWindows : ScheduleUpdate("dA", day, w[1], w[2])
    \/ \E day \in ScheduleDays, new_day \in ScheduleDays : ScheduleMove("dA", day, new_day)
    \/ \E day \in ScheduleDays : ScheduleDelete("dA", day)
    \/ \E flag \in BOOLEAN : SetScheduleAvailable("dA", 1, flag)
    \/ \E pd \in SlotPairs : Book(pd[1], pd[2], KindOf(pd[2]), 1, 570)
    \/ Respond

\* Both collaborators work.
ScheduleInit == FxInit /\ service = AllUp

ScheduleSpec == ScheduleInit /\ [][ScheduleNext]_vars

\* ============================================================= claims
TerminalStatuses == {"completed", "cancelled"}

Active(i) == appts[i].status \in ActiveStatuses

SameDay(i, j) == appts[i].scheduled_date = appts[j].scheduled_date

IntervalsOverlap(i, j) == Overlap30(appts[i].scheduled_time, appts[j].scheduled_time)

\* C1: in every reachable state, no two distinct active appointments of one
\* doctor on one date have overlapping [time, time+30min) intervals.
C1_DoctorNoOverlap ==
    \A i, j \in Ids :
        (i # j /\ Active(i) /\ Active(j) /\ appts[i].doctor = appts[j].doctor /\ SameDay(i, j))
            => ~IntervalsOverlap(i, j)

\* C2: in every reachable state, no two distinct active appointments of one
\* patient on one date, with the same or different doctors, have overlapping
\* [time, time+30min) intervals.
C2_PatientNoOverlap ==
    \A i, j \in Ids :
        (i # j /\ Active(i) /\ Active(j) /\ appts[i].patient = appts[j].patient /\ SameDay(i, j))
            => ~IntervalsOverlap(i, j)

\* Another patient's active appointment holds the doctor's slot of this row.
SlotHeldByOther(row) ==
    \E i \in Ids :
        /\ Active(i)
        /\ appts[i].doctor = row.doctor
        /\ appts[i].patient # row.patient
        /\ appts[i].scheduled_date = row.scheduled_date
        /\ appts[i].scheduled_time = row.scheduled_time

\* C3: of two concurrent book requests by different patients for the same
\* doctor, date and time, only one creates an appointment: a validated
\* request whose slot another patient's active appointment holds when it
\* comes to write is rejected instead of saved.
C3_RaceLoserRejected ==
    [][\A r \in reqs : (r.op = "book" /\ SlotHeldByOther(r.row)) => ~BookSave(r)]_vars

\* The row request r writes in this step, and the rows it must not overlap.
Written(r) == IF r.op = "book" THEN appts'[Len(appts')] ELSE appts'[r.id]

ClashAtWrite(r) ==
    \E i \in Ids :
        /\ i # r.id
        /\ Active(i)
        /\ appts[i].doctor = Written(r).doctor \/ appts[i].patient = Written(r).patient
        /\ appts[i].scheduled_date = Written(r).scheduled_date
        /\ Overlap30(appts[i].scheduled_time, Written(r).scheduled_time)

\* C4: check and write of book and of reschedule are one atomic unit: when
\* a request writes, no other write has come in since its check, so the row
\* it writes overlaps no active appointment of the same doctor or patient.
C4_CheckWriteAtomic ==
    [][\A r \in reqs : (BookSave(r) \/ UpdateSave(r)) => ~ClashAtWrite(r)]_vars

\* C5: once an appointment is completed or cancelled, no operation changes
\* its status to a different value.
C5_TerminalIsFinal ==
    [][\A i \in Ids :
          appts[i].status \in TerminalStatuses => appts'[i].status = appts[i].status]_vars

\* C6: cancelling a completed or cancelled appointment returns
\* AlreadyFinalized and leaves the appointment as it was.
C6_CancelFinalized ==
    [][\A i \in Ids :
          (resp'.op = "cancel" /\ resp'.id = i /\ appts[i].status \in TerminalStatuses)
              => (resp'.result = "already_finalized" /\ appts' = appts)]_vars

\* The transitions of the lifecycle state machine.
LegalTransitions ==
    {<<"scheduled", "confirmed">>, <<"confirmed", "in_progress">>,
     <<"in_progress", "completed">>, <<"scheduled", "completed">>,
     <<"confirmed", "completed">>}
    \cup (ActiveStatuses \X {"cancelled"})

\* C7: every status change of a non-terminal appointment is a transition of
\* the lifecycle state machine; any other requested change is rejected.
C7_OnlyLegalTransitions ==
    [][\A i \in Ids :
          (appts[i].status \in ActiveStatuses /\ appts'[i].status # appts[i].status)
              => <<appts[i].status, appts'[i].status>> \in LegalTransitions]_vars

\* C8: cancelling an active appointment succeeds, sets its status to
\* cancelled and changes nothing else of it or of any other row; no
\* operation ever removes a row.
C8_CancelFrame ==
    [][/\ Len(appts') >= Len(appts)
       /\ \A i \in Ids :
            (resp'.op = "cancel" /\ resp'.id = i /\ appts[i].status \in ActiveStatuses)
                => /\ resp'.result = "cancelled"
                   /\ appts'[i].status = "cancelled"
                   /\ appts'[i].doctor = appts[i].doctor
                   /\ appts'[i].patient = appts[i].patient
                   /\ appts'[i].scheduled_date = appts[i].scheduled_date
                   /\ appts'[i].scheduled_time = appts[i].scheduled_time
                   /\ appts'[i].appointment_type = appts[i].appointment_type
                   /\ \A j \in Ids \ {i} : appts'[j] = appts[j]]_vars

\* A cancel has just answered for a row that stays in the table, cancelled,
\* beside another row.
C8_Witness ==
    /\ resp.op = "cancel"
    /\ resp.result = "cancelled"
    /\ resp.id \in Ids
    /\ appts[resp.id].status = "cancelled"
    /\ Len(appts) >= 2

\* The errors the validation raises for each rule.  Both overlap rules are
\* reported by the one conflict error of check_overlap.
Messages(check) ==
    CASE check = "doctor_available" -> {"doctor_not_available"}
      [] check = "not_in_past" -> {"in_the_past"}
      [] check = "inside_schedule" -> {"not_available_on_day", "outside_schedule_hours"}
      [] check = "doctor_overlap" -> {"conflict"}
      [] check = "patient_overlap" -> {"conflict"}

\* The earliest rule of CheckOrder among the broken ones.
FirstFailed(failed) ==
    LET k == CHOOSE n \in 1..Len(CheckOrder) :
                 /\ CheckOrder[n] \in failed
                 /\ \A m \in 1..(n - 1) : CheckOrder[m] \notin failed
    IN  CheckOrder[k]

Moved(i) ==
    \/ appts'[i].scheduled_date # appts[i].scheduled_date
    \/ appts'[i].scheduled_time # appts[i].scheduled_time

RowInWindow(row) == WindowCovers(row.doctor, row.scheduled_date, row.scheduled_time)

\* C10: a book or reschedule is accepted only if an enabled window of the
\* date's weekday covers the time; with an available doctor and a slot not
\* in the past, a request no enabled window covers is rejected with
\* OutsideSchedule and the table stays as it was.
C10_InsideSchedule ==
    [][/\ (resp'.op = "book" /\ resp'.result = "created") => RowInWindow(appts'[resp'.id])
       /\ \A i \in Ids :
            (resp'.op = "update" /\ resp'.id = i /\ Moved(i)) => RowInWindow(appts'[i])
       /\ (/\ resp'.op \in {"book", "update"}
           /\ "inside_schedule" \in resp'.failed
           /\ "doctor_available" \notin resp'.failed
           /\ "not_in_past" \notin resp'.failed)
            => /\ resp'.result \in {"not_available_on_day", "outside_schedule_hours"}
               /\ appts' = appts]_vars

\* A booking on a weekday without an enabled window (nothing else wrong
\* with it) was answered "not available on that day".
C10_Witness ==
    /\ resp.op = "book"
    /\ resp.failed = {"inside_schedule"}
    /\ resp.result = "not_available_on_day"

\* C11: a book or reschedule whose date and time are strictly earlier than
\* the clock is rejected, with PastSlot when the doctor is available; one at
\* or after the clock is never answered PastSlot; and the passing of time
\* changes no stored appointment.
C11_PastSlotStrict ==
    [][/\ (resp'.op \in {"book", "update"} /\ "not_in_past" \in resp'.failed)
            => /\ appts' = appts
               /\ "doctor_available" \notin resp'.failed => resp'.result = "in_the_past"
       /\ (resp'.op \in {"book", "update"} /\ "not_in_past" \notin resp'.failed)
            => resp'.result # "in_the_past"
       /\ now' # now => appts' = appts]_vars

\* A booking for a time the clock has passed was answered "in the past",
\* while an appointment whose time has passed as well is still active.
C11_Witness ==
    /\ resp.op = "book"
    /\ resp.result = "in_the_past"
    /\ \E i \in Ids :
          /\ Active(i)
          /\ Stamp(appts[i].scheduled_date, appts[i].scheduled_time) < Stamp(now[1], now[2])

\* A booking for exactly the time the clock reads was accepted.
C11_AtClockAccepted ==
    /\ resp.op = "book"
    /\ resp.result = "created"
    /\ appts[resp.id].scheduled_date = now[1]
    /\ appts[resp.id].scheduled_time = now[2]

\* The checks in front of the overlap checks pass for this request.
ReachesOverlapCheck(doctor, date, t) ==
    /\ available[doctor]
    /\ Stamp(date, t) >= Stamp(now[1], now[2])
    /\ WindowCovers(doctor, date, t)

\* C12: when a patient has an active appointment with one doctor at time t,
\* a booking by the same patient with another doctor on that date at any
\* time u with t < u+30min and u < t+30min, slot-aligned or not, is rejected
\* with PatientConflict and creates nothing, the other doctor having no
\* conflicting appointment.
C12_PatientConflict ==
    [][\A pd \in BookPairs, s \in DaySlots :
          (/\ Book(pd[1], pd[2], KindOf(pd[2]), s[1], s[2])
           /\ ReachesOverlapCheck(pd[2], s[1], s[2])
           /\ \E i \in Ids : /\ appts[i].patient = pd[1]
                             /\ appts[i].doctor # pd[2]
                             /\ ActiveClash(i, s[1], s[2], 0)
           /\ ~\E i \in Ids : appts[i].doctor = pd[2] /\ ActiveClash(i, s[1], s[2], 0))
              => (resp'.result = "conflict" /\ appts' = appts)]_vars

\* C13: a reschedule of appointment X to a new time succeeds when no
\* active appointment other than X, of X's doctor or patient, overlaps the
\* new interval (X's own current interval does not count), and is rejected
\* when another one does.
C13_SelfExcluded ==
    [][\A id \in Ids, t \in DayTimes :
          (/\ Update(id, [scheduled_time |-> t])
           /\ ReachesOverlapCheck(appts[id].doctor, appts[id].scheduled_date, t))
              => (resp'.result = "updated"
                    <=> ~\E i \in Ids :
                           /\ appts[i].doctor = appts[id].doctor
                                \/ appts[i].patient = appts[id].patient
                           /\ ActiveClash(i, appts[id].scheduled_date, t, id))]_vars

\* C14: for every two start times a and b on one date that the Conflict
\* Checker compares, its overlap test says "overlap" exactly when
\* a < b+30min and b < a+30min; equal start times always overlap.
C14_OverlapTest ==
    [][\A pd \in BookPairs, s \in DaySlots :
          (/\ Book(pd[1], pd[2], KindOf(pd[2]), s[1], s[2])
           /\ resp'.result \in {"created", "conflict"})
              => \A i \in Ids :
                    TimesOverlap(s[2], appts[i].scheduled_time)
                        <=> Overlap30(s[2], appts[i].scheduled_time)]_vars

\* A returned slot, read back as a time of day.
Minutes(hm) == hm[1] * 60 + hm[2]

\* The stored row the availability response was computed from.
QueriedRow == schedule[<<resp.doctor_id, Weekday(resp.date)>>]

\* An availability response with a slot list for an enabled window.
SlotsListed ==
    /\ resp.op = "availability"
    /\ resp.result = "ok"
    /\ resp.doctor_id \in Doctors
    /\ QueriedRow.exists /\ QueriedRow.is_available

\* How many k >= 0 have start + 30min*k < end.
BoundaryCount(start, end) == IF end > start THEN (end - start + SlotMinutes - 1) \div SlotMinutes ELSE 0

\* start + 30min*k for every k >= 0 with start + 30min*k < end, ascending
Boundaries(start, end) ==
    [k \in 1..BoundaryCount(start, end) |-> start + SlotMinutes * (k - 1)]

\* The active appointments of the queried doctor on the queried date.
Consumed ==
    {appts[i].scheduled_time :
        i \in {j \in Ids : /\ Active(j)
                           /\ appts[j].doctor = resp.doctor_id
                           /\ appts[j].scheduled_date = resp.date}}

ListedTimes == {Minutes(resp.available_slots[k]) : k \in 1..Len(resp.available_slots)}

\* C15: for an enabled window [start, end) with any start minute, the
\* boundaries enumerated before filtering are start + 30min*k for every
\* k >= 0 with start + 30min*k < end, ascending: with no appointment to
\* filter, the slot list is exactly that sequence.
C15_HalfHourBoundaries ==
    (SlotsListed /\ Consumed = {})
        => resp.available_slots =
              [k \in 1..BoundaryCount(QueriedRow.start_time, QueriedRow.end_time) |->
                  strftime(Boundaries(QueriedRow.start_time, QueriedRow.end_time)[k])]

\* C16: a 30-minute boundary of the enabled window is missing from the slot
\* list if and only if an active appointment of that doctor on that date
\* starts at that boundary; cancelled and completed appointments, other
\* doctors' and other dates' appointments remove nothing.
C16_FilterExactly ==
    SlotsListed
        => \A k \in 1..BoundaryCount(QueriedRow.start_time, QueriedRow.end_time) :
              LET b == Boundaries(QueriedRow.start_time, QueriedRow.end_time)[k]
              IN  b \notin ListedTimes <=> b \in Consumed

\* C17: the slot generator ends with a slot sequence and no error for
\* every doctor, date and stored enabled window, windows ending after 23:30
\* included.
C17_NoError ==
    resp.op = "availability" => resp.result # "server_error"

\* C18: without a window for the date's weekday, or with a window that is
\* switched off, the slot list is empty and comes with a reason, whatever
\* appointments exist; an unknown doctor is answered NotFound.
C18_EmptyOrNotFound ==
    resp.op = "availability"
        => /\ resp.doctor_id \notin Doctors => resp.result = "not_found"
           /\ (resp.doctor_id \in Doctors /\ ~(QueriedRow.exists /\ QueriedRow.is_available))
                => /\ resp.result = "ok"
                   /\ resp.available_slots = <<>>
                   /\ resp.message

\* The slots of a day whose window is switched off were asked for while an
\* active appointment of that doctor stands on that day: the list is empty.
C18_Witness ==
    /\ resp.op = "availability"
    /\ resp.doctor_id \in Doctors
    /\ QueriedRow.exists /\ ~QueriedRow.is_available
    /\ Consumed # {}
    /\ resp.available_slots = <<>>

\* C19: every returned slot t has start <= t < end for the enabled window
\* of the doctor on the date's weekday.
C19_SlotsInWindow ==
    resp.op = "availability"
        => \A k \in 1..Len(resp.available_slots) :
              WindowCovers(resp.doctor_id, resp.date, Minutes(resp.available_slots[k]))

\* A list of several slots was returned for a day with an active appointment.
C19_Witness ==
    /\ SlotsListed
    /\ Len(resp.available_slots) >= 3
    /\ Consumed # {}

WriteOps == {"book", "update", "cancel"}

\* C21: a failing side effect (the notification not created, the calendar
\* provisioning raising or unavailable) never makes a book, update or cancel
\* report failure: a request that wrote its appointment answers with the
\* success outcome.
C21_SideEffectFailureSwallowed ==
    (resp.op \in WriteOps /\ resp.id \in Ids /\ resp.failed = {})
        => resp.result \in {"created", "updated", "cancelled"}

\* The notifications among the effects fx.
Notifications(fx) == {k \in 1..Len(fx) : fx[k].kind = "notification"}

\* The status changes the dispatcher is to be told of.
NotifiedTransition(old, new) ==
    /\ old # new
    /\ \/ new \in {"completed", "cancelled"}
       \/ <<old, new>> \in {<<"scheduled", "confirmed">>, <<"confirmed", "in_progress">>}

\* C22: with the Notification table accepting rows, the request that creates
\* an appointment and every request that moves one from scheduled to
\* confirmed, from confirmed to in_progress, to completed or to cancelled
\* creates at least one notification.
C22_NotifiedOnTransition ==
    [][service.notifications = "ok" =>
          /\ Len(appts') > Len(appts) => Notifications(resp'.fx) # {}
          /\ \A i \in Ids :
                NotifiedTransition(appts[i].status, appts'[i].status)
                    => Notifications(resp'.fx) # {}]_vars

\* The calendar calls of one kind among the effects fx.
CalendarCalls(fx, what) ==
    {k \in 1..Len(fx) : fx[k].kind = "calendar" /\ fx[k].what = what}

\* C23: the request that creates a video appointment provisions exactly once
\* and the one that creates an in_person appointment never; no request that
\* creates no appointment (update, status change, cancel) provisions; when
\* the calendar is unavailable or fails, the new appointment is stored with
\* status scheduled and no event id.
C23_ProvisionOncePerVideo ==
    [][/\ Len(appts') > Len(appts) =>
            LET row == appts'[Len(appts')]
            IN  /\ Cardinality(CalendarCalls(resp'.fx, "create"))
                      = IF row.appointment_type = "video" THEN 1 ELSE 0
                /\ service.calendar # "up" =>
                      /\ row.status = "scheduled"
                      /\ row.google_calendar_event_id = "none"
       /\ Len(appts') = Len(appts) => CalendarCalls(resp'.fx, "create") = {}]_vars

\* A video appointment stored without an event, the calendar being down or
\* failing, has been updated.
C23_Witness ==
    /\ resp.op = "update"
    /\ resp.result = "updated"
    /\ service.calendar # "up"
    /\ appts[resp.id].appointment_type = "video"
    /\ appts[resp.id].google_calendar_event_id = "none"

\* The notifications of one title to one user among the effects fx.
NotesTo(fx, what, to) ==
    {k \in 1..Len(fx) : fx[k].kind = "notification" /\ fx[k].what = what /\ fx[k].to = to}

\* Row i is an active appointment for tomorrow.
DueTomorrow(i) == appts[i].scheduled_date = Tomorrow /\ appts[i].status \in ActiveStatuses

\* C24: with the Notification table accepting rows, a run of the reminder
\* task reminds the patient and the doctor of every appointment for tomorrow
\* whose status is scheduled, confirmed or in_progress, and reminds nobody of
\* any other appointment.
C24_RemindersExact ==
    (resp.op = "reminders" /\ service.notifications = "ok") =>
        /\ \A i \in Ids : DueTomorrow(i) =>
              /\ NotesTo(resp.fx, "Appointment Reminder", appts[i].patient) # {}
              /\ NotesTo(resp.fx, "Appointment Reminder", appts[i].doctor) # {}
        /\ Len(resp.fx) = 2 * Cardinality({i \in Ids : DueTomorrow(i)})

\* C25: every stored DoctorSchedule row has start_time before end_time,
\* whatever creates and updates the doctor has sent.  (One row per doctor and
\* day holds by the table's key: schedule is a function of <<doctor, day>>.)
C25_WindowsWellFormed ==
    \A k \in DOMAIN schedule :
        schedule[k].exists => schedule[k].start_time < schedule[k].end_time

\* C26: when the room of a confirmed appointment goes from scheduled to
\* active (the first participant joins), the appointment becomes in_progress.
C26_RoomStartsSession ==
    [][\A i \in Ids :
          (rooms[i] = "scheduled" /\ rooms'[i] = "active" /\ appts[i].status = "confirmed")
              => appts'[i].status = "in_progress"]_vars

\* C27: cancelling an appointment that has a calendar event, the calendar
\* service answering, invokes the deletion of that event.
C27_CancelDeletesEvent ==
    (/\ resp.op = "cancel"
     /\ resp.id \in Ids
     /\ appts[resp.id].google_calendar_event_id # "none"
     /\ service.calendar = "up")
        => CalendarCalls(resp.fx, "delete") # {}

\* C28: every time the availability endpoint lists is free of doctor
\* conflicts: no active appointment of that doctor on that date, aligned to
\* the slot boundaries or not, overlaps the half hour starting there.
C28_SlotsConflictFree ==
    SlotsListed => \A t \in ListedTimes : \A s \in Consumed : ~Overlap30(t, s)

\* The ValidationErrors of the two validate methods.
Rejections ==
    {"doctor_not_available", "in_the_past", "not_available_on_day",
     "outside_schedule_hours", "conflict"}

\* C29: a book or reschedule request that validation rejects, whatever the
\* reason, leaves the Appointment table unchanged (so a rejected reschedule
\* keeps the row's date, time and status), creates no notification and makes
\* no calendar call.
C29_RejectionHasNoEffect ==
    [][(resp'.op \in {"book", "update"} /\ resp'.result \in Rejections)
          => (appts' = appts /\ resp'.fx = <<>>)]_vars

\* The reschedule of a confirmed video appointment with a calendar event has
\* been rejected.
C29_Witness ==
    /\ resp.op = "update"
    /\ resp.result \in Rejections
    /\ appts[resp.id].status = "confirmed"
    /\ appts[resp.id].google_calendar_event_id # "none"

\* The title of the notification create_appointment_notifications sends for
\* a status.
StatusTitle(status) ==
    CASE status = "confirmed" -> "Appointment Confirmed"
      [] status = "cancelled" -> "Appointment Cancelled"
      [] status = "completed" -> "Appointment Completed"

\* C30: with the Notification table accepting rows, an update or cancel
\* request sends the confirmed, cancelled or completed notification once to
\* the patient, and at most once to anyone, when it changes the appointment's
\* status to that value, and sends none when it does not change the status
\* to it (notes edited, appointment rescheduled).
C30_OncePerStatusChange ==
    [][(resp'.op \in {"update", "cancel"} /\ resp'.id \in Ids
            /\ service.notifications = "ok")
          => \A s \in {"confirmed", "cancelled", "completed"} :
                LET i == resp'.id
                    changed == appts[i].status # s /\ appts'[i].status = s
                IN  /\ \A u \in Patients \cup Doctors :
                          Cardinality(NotesTo(resp'.fx, StatusTitle(s), u))
                              <= IF changed THEN 1 ELSE 0
                    /\ changed =>
                          Cardinality(NotesTo(resp'.fx, StatusTitle(s), appts[i].patient)) = 1]_vars

====
